---- MODULE Spec2Model ----
(***************************************************************************)
(* Model of src/traced_relay/relay_service.cc: the RelayService that       *)
(* accepts producer connections, opens a paired connection to the host     *)
(* traced, pre-queues a forged SetPeerIdentity frame and hands the pair to *)
(* SocketRelayHandler.                                                     *)
(*                                                                         *)
(* Strings and byte buffers are sequences of byte values (0..255).         *)
(***************************************************************************)
EXTENDS Integers, Sequences, FiniteSets, TLC

\* Number of inbound connections the environment delivers in one run.
MaxConn == 2

\* SocketWithBuffer's fixed capacity, scaled down so that a long boot id
\* makes the forged frame exceed it.
kBuffSize == 32

\* ------------------------------------------------------------------------
\* Bytes and strings
\* ------------------------------------------------------------------------
NL == 10

RECURSIVE Repeat(_, _)
Repeat(b, n) == IF n = 0 THEN <<>> ELSE <<b>> \o Repeat(b, n - 1)

RECURSIVE Xor(_, _)
Xor(a, b) ==
  IF a = 0 /\ b = 0 THEN 0
  ELSE (((a % 2) + (b % 2)) % 2) + 2 * Xor(a \div 2, b \div 2)

\* base::StripSuffix(str, "\n"): drops one trailing newline if there is one.
StripSuffix(str) ==
  IF Len(str) >= 1 /\ str[Len(str)] = NL THEN SubSeq(str, 1, Len(str) - 1)
  ELSE str

\* ------------------------------------------------------------------------
\* base::Hasher (FNV-1a, 64 bit) on 8 little-endian byte limbs
\* ------------------------------------------------------------------------
kFnv1a64OffsetBasis == <<37, 35, 34, 132, 228, 156, 242, 203>>
kFnv1a64Prime == <<179, 1, 0, 0, 0, 1, 0, 0>>

RECURSIVE ColumnSum(_, _, _)
ColumnSum(h, k, i) ==
  IF i > k THEN 0 ELSE h[i] * kFnv1a64Prime[k - i + 1] + ColumnSum(h, k, i + 1)

RECURSIVE MulPrimeFrom(_, _, _)
MulPrimeFrom(h, k, carry) ==
  IF k > 8 THEN <<>>
  ELSE LET s == ColumnSum(h, k, 1) + carry
       IN  <<(s % 256)>> \o MulPrimeFrom(h, k + 1, s \div 256)

\* result_ *= kFnv1a64Prime  (mod 2^64)
MulPrime(h) == MulPrimeFrom(h, 1, 0)

RECURSIVE HasherUpdate(_, _)
HasherUpdate(h, data) ==
  IF data = <<>> THEN h
  ELSE HasherUpdate(MulPrime([h EXCEPT ![1] = Xor(h[1], data[1])]), Tail(data))

HexDigit(n) == IF n < 10 THEN 48 + n ELSE 97 + (n - 10)

RECURSIVE StripLeadingZeros(_)
StripLeadingZeros(s) ==
  IF Len(s) > 1 /\ s[1] = 48 THEN StripLeadingZeros(Tail(s)) ELSE s

\* base::Uint64ToHexStringNoPrefix: "%" PRIx64 of the digest.
Uint64ToHexStringNoPrefix(h) ==
  StripLeadingZeros(
    [i \in 1..16 |->
       LET b == h[8 - ((i - 1) \div 2)]
       IN  HexDigit(IF (i % 2) = 1 THEN b \div 16 ELSE (b % 16))])

\* ------------------------------------------------------------------------
\* RelayService::GetMachineIdHint
\* ------------------------------------------------------------------------
\* Build targets: "linux" stands for PERFETTO_OS_LINUX and PERFETTO_OS_ANDROID,
\* "apple" for PERFETTO_OS_APPLE, "other" for every other target.
Platforms == {"linux", "apple", "other"}

\* Variant of get_pseudo_boot_id that does not look at the result of uname(2).
get_pseudo_boot_id_IgnoreUname(env) ==
  IF env.stat_rc = -1 THEN <<>>
  ELSE Uint64ToHexStringNoPrefix(
         HasherUpdate(HasherUpdate(kFnv1a64OffsetBasis, env.btime),
                      env.kernel_info))

\* The lambda get_pseudo_boot_id.  env.stat_rc is the result of statx(2) (or
\* stat(2) on Apple), env.btime the birth timestamp bytes it filled in,
\* env.uname_rc the result of uname(2) and env.kernel_info the utsname bytes.
get_pseudo_boot_id(env) ==
  IF env.stat_rc = -1 THEN <<>>
  ELSE IF env.uname_rc = -1 THEN <<>>
  ELSE Uint64ToHexStringNoPrefix(
         HasherUpdate(HasherUpdate(kFnv1a64OffsetBasis, env.btime),
                      env.kernel_info))

\* Variant of GetMachineIdHint that returns the file content as read.
GetMachineIdHint_NoStrip(use_pseudo_boot_id_for_testing, platform, env) ==
  IF ~use_pseudo_boot_id_for_testing /\ env.boot_id # <<>>
  THEN env.boot_id[1]
  ELSE IF platform \in {"linux", "apple"}
       THEN get_pseudo_boot_id(env)
       ELSE <<>>

\* env.boot_id is <<>> when /proc/sys/kernel/random/boot_id cannot be read
\* and <<content>> when it can.
GetMachineIdHint(use_pseudo_boot_id_for_testing, platform, env) ==
  IF ~use_pseudo_boot_id_for_testing /\ env.boot_id # <<>>
  THEN StripSuffix(env.boot_id[1])
  ELSE IF platform \in {"linux", "apple"}
       THEN LET pseudo_boot_id == get_pseudo_boot_id(env)
            IN  IF pseudo_boot_id # <<>> THEN pseudo_boot_id ELSE <<>>
       ELSE <<>>

\* Contents of the boot id file the relay may find at construction: a short
\* id with its newline, one long enough that no forged frame fits the staging
\* buffer, and one with which only the frames of peers with small ids fit.
BootIdFiles ==
  {<<>>, << <<98, NL>> >>, << Repeat(97, kBuffSize) >>,
   << Repeat(99, kBuffSize - 15) \o <<NL>> >>}

Environments ==
  [boot_id : BootIdFiles, stat_rc : {0, -1}, uname_rc : {0, -1},
   btime : {<<5, 0, 0, 1>>}, kernel_info : {<<76, 105, 110, 0, 54>>}]

\* ------------------------------------------------------------------------
\* Wire encoding: protobuf IPCFrame and BufferedFrameDeserializer::Serialize
\* ------------------------------------------------------------------------
RECURSIVE Varint(_)
Varint(n) ==
  IF n < 128 THEN <<n>> ELSE <<(n % 128) + 128>> \o Varint(n \div 128)

\* The 4 byte little-endian header.
LE32(n) ==
  <<n % 256, (n \div 256) % 256, (n \div 65536) % 256, (n \div 16777216) % 256>>

\* Optional fields are sequences of length 0 (unset) or 1 (set).
EncodeSetPeerIdentity(m) ==
     (IF m.pid # <<>> THEN <<8>> \o Varint(m.pid[1]) ELSE <<>>)
  \o (IF m.uid # <<>> THEN <<16>> \o Varint(m.uid[1]) ELSE <<>>)
  \o (IF m.machine_id_hint # <<>>
      THEN <<26>> \o Varint(Len(m.machine_id_hint[1])) \o m.machine_id_hint[1]
      ELSE <<>>)

EncodeIPCFrame(f) ==
     (IF f.request_id # <<>> THEN <<16>> \o Varint(f.request_id[1]) ELSE <<>>)
  \o (IF f.set_peer_identity # <<>>
      THEN LET body == EncodeSetPeerIdentity(f.set_peer_identity[1])
           IN  <<66>> \o Varint(Len(body)) \o body
      ELSE <<>>)

Serialize(f) ==
  LET payload == EncodeIPCFrame(f) IN LE32(Len(payload)) \o payload

\* ------------------------------------------------------------------------
\* SocketWithBuffer / SocketPair (socket_relay_handler.h)
\* ------------------------------------------------------------------------
NoSock == <<"none", 0>>
InSock(n) == <<"in", n>>
OutSock(n) == <<"out", n>>
AllSocks == {InSock(n) : n \in 1..MaxConn} \cup {OutSock(n) : n \in 1..MaxConn}

NewSocketWithBuffer ==
  [sock |-> NoSock, buf_ |-> Repeat(0, kBuffSize), data_size_ |-> 0]

available_bytes(s) == Len(s.buf_) - s.data_size_

\* memcpy(s.buffer(), data, size): buffer() points at buf_ + data_size_.
Memcpy(s, data, size) ==
  [s EXCEPT !.buf_ =
     [i \in 1..Len(s.buf_) |->
        IF i > s.data_size_ /\ i <= s.data_size_ + size
        THEN data[i - s.data_size_] ELSE s.buf_[i]]]

EnqueueData(s, size) == [s EXCEPT !.data_size_ = @ + size]

\* The bytes the relay handler will send first: the committed prefix.
PendingOutput(s) == SubSeq(s.buf_, 1, s.data_size_)

\* ------------------------------------------------------------------------
\* State
\* ------------------------------------------------------------------------
VARIABLES
  platform,              \* build target (PERFETTO_BUILDFLAG(PERFETTO_OS_*))
  dcheck_is_on,          \* whether the build has PERFETTO_DCHECK_IS_ON
  env,                   \* boot id file and system call results, as of now
  hint_call,             \* the latest GetMachineIdHint call: flag and value
  machine_id_hint_,      \* RelayService::machine_id_hint_
  listening_socket_,     \* "null" or "listening"
  client_socket_name_,   \* <<>> until Start stores the upstream name
  pending_connections_,  \* sequence of PendingConnection
  socket_relay_handler_, \* the pairs SocketRelayHandler was given, in order
  sockets,               \* kernel view of each raw socket: unused/open/closed
  peers,                 \* credentials of the accepted inbound peers, by number
  hist,                  \* per connection: the steps taken for it so far
  server,                \* the local |server| of the last acceptance
  halted,                \* the process was terminated by a fatal check
  logged                 \* source line of the last error message, 0 if none

vars == <<platform, dcheck_is_on, env, hint_call, machine_id_hint_,
          listening_socket_,
          client_socket_name_, pending_connections_, socket_relay_handler_,
          sockets, peers, hist, server, halted, logged>>

\* What no callback of the service writes.
config == <<platform, dcheck_is_on, env, hint_call, machine_id_hint_>>

\* Credentials a connecting producer may have (peer_uid_posix, peer_pid_linux).
Peers == {[uid |-> 0, pid |-> 7], [uid |-> 1000, pid |-> 300]}

\* Socket names Start may be given as |client_socket_name|.
SocketNames == {<<117, 49>>, <<117, 50>>}

\* What has happened for one inbound connection: how many outbound attempts
\* were opened for it, how many pending entries were pushed and erased, the
\* serialized request built at its acceptance, and the |connected| argument of
\* the OnConnect call that found its entry (<<>> while there was none).
NoHist == [connects |-> 0, pushes |-> 0, erases |-> 0, req |-> <<>>,
           outcome |-> <<>>]

\* RelayService::RelayService: the hint is computed in the initializer list.
Init ==
  /\ platform \in Platforms
  /\ dcheck_is_on \in BOOLEAN
  /\ env \in Environments
  /\ machine_id_hint_ = GetMachineIdHint(FALSE, platform, env)
  /\ hint_call = [use_pseudo_boot_id_for_testing |-> FALSE,
                  value |-> machine_id_hint_]
  /\ listening_socket_ = "null"
  /\ client_socket_name_ = <<>>
  /\ pending_connections_ = <<>>
  /\ socket_relay_handler_ = <<>>
  /\ sockets = [f \in AllSocks |-> "unused"]
  /\ peers = <<>>
  /\ hist = [n \in 1..MaxConn |-> NoHist]
  /\ server = NewSocketWithBuffer
  /\ halted = FALSE
  /\ logged = 0

\* ------------------------------------------------------------------------
\* RelayService::Start
\* ------------------------------------------------------------------------
\* |listen_result| is what UnixSocket::Listen produced: "null" (no socket),
\* "unbound" (a socket that is not listening) or "listening".
\* Variant of producer_socket_listening that only tests the pointer.
producer_socket_listening_NoIsListening(listen_result) ==
  listen_result # "null"

\* Lines 56-57: listening_socket_ && listening_socket_->is_listening().
producer_socket_listening(listen_result) == listen_result = "listening"

Start(listen_result, client_socket_name) ==
  /\ ~halted
  /\ listening_socket_ = "null"
  /\ client_socket_name_ = <<>>
  /\ IF ~producer_socket_listening(listen_result)
     THEN /\ halted' = TRUE
          /\ logged' = 59
          /\ UNCHANGED <<listening_socket_, client_socket_name_>>
     ELSE /\ listening_socket_' = listen_result
          /\ client_socket_name_' = client_socket_name
          /\ UNCHANGED <<halted, logged>>
  /\ UNCHANGED <<config, pending_connections_, socket_relay_handler_, sockets,
                 peers, hist, server>>

\* ------------------------------------------------------------------------
\* RelayService::OnNewIncomingConnection
\* ------------------------------------------------------------------------
\* Variant of ForgedFrame that fills the uid field from the peer's pid.
ForgedFrame_UidFromPid(plat, creds, hint) ==
  [request_id |-> <<0>>,
   set_peer_identity |->
     << [pid |-> IF plat = "linux" THEN <<creds.pid>> ELSE <<>>,
         uid |-> <<creds.pid>>,
         machine_id_hint |-> <<hint>>] >>]

\* Lines 85-95: the forged IPCFrame.
ForgedFrame(plat, creds, hint) ==
  [request_id |-> <<0>>,
   set_peer_identity |->
     << [pid |-> IF plat = "linux" THEN <<creds.pid>> ELSE <<>>,
         uid |-> <<creds.uid>>,
         machine_id_hint |-> <<hint>>] >>]

\* Variant of HintForFrame that derives the hint anew at each acceptance.
HintForFrame_Recomputed == GetMachineIdHint(FALSE, platform, env)

\* Line 95: the hint put into the frame is the member machine_id_hint_.
HintForFrame == machine_id_hint_

\* Variant of FitsBuffer for a build in which the capacity check is gone.
FitsBuffer_Unchecked(s, req) == TRUE

\* Line 100: PERFETTO_CHECK(server.available_bytes() >= req.size()).
FitsBuffer(s, req) == available_bytes(s) >= Len(req)

\* Variant of StageFrame that queues the request a second time when the
\* buffer has room for it.
StageFrame_Twice(s, req) ==
  LET once == EnqueueData(Memcpy(s, req, Len(req)), Len(req))
  IN  IF available_bytes(once) >= Len(req)
      THEN EnqueueData(Memcpy(once, req, Len(req)), Len(req))
      ELSE once

\* Variant of StageFrame that copies the request but never commits it.
StageFrame_NoEnqueue(s, req) == Memcpy(s, req, Len(req))

\* Lines 101-102: copy the request into the buffer and commit it.
StageFrame(s, req) == EnqueueData(Memcpy(s, req, Len(req)), Len(req))

\* Variant of PushBack that assigns the collection instead of appending.
PushBack_Assign(pending, entry) == <<entry>>

\* Lines 109-110: pending_connections_.push_back(...).
PushBack(pending, entry) == Append(pending, entry)

\* UnixSocket::Connect: a connecting UnixSocket owning a fresh raw socket.
Connect(id, name) == [id |-> id, sock |-> OutSock(id), name |-> name]

\* The listening socket is the only listener the service registers, so
\* |listen_socket| is always listening_socket_ (the PERFETTO_DCHECK of line 70).
\* A failed capacity check ends the call with the sockets still in its locals.
OnNewIncomingConnection(creds) ==
  /\ ~halted
  /\ listening_socket_ = "listening"
  /\ Len(peers) < MaxConn
  /\ LET n == Len(peers) + 1
         client_conn == Connect(n, client_socket_name_)
         req == Serialize(ForgedFrame(platform, creds, HintForFrame))
         fresh == NewSocketWithBuffer
     IN  /\ peers' = Append(peers, creds)
         /\ IF ~FitsBuffer(fresh, req)
            THEN /\ halted' = TRUE
                 /\ logged' = 100
                 /\ server' = fresh
                 /\ sockets' = [sockets EXCEPT ![InSock(n)] = "open",
                                               ![OutSock(n)] = "open"]
                 /\ hist' = [hist EXCEPT ![n].connects = @ + 1,
                                         ![n].req = req]
                 /\ UNCHANGED pending_connections_
            ELSE LET staged == StageFrame(fresh, req)
                     new_socket_pair ==
                       [first |-> [staged EXCEPT !.sock = InSock(n)],
                        second |-> NewSocketWithBuffer]
                 IN  /\ server' = staged
                     /\ sockets' = [sockets EXCEPT ![InSock(n)] = "open",
                                                   ![OutSock(n)] = "open"]
                     /\ hist' = [hist EXCEPT ![n].connects = @ + 1,
                                             ![n].pushes = @ + 1,
                                             ![n].req = req]
                     /\ pending_connections_' =
                          PushBack(pending_connections_,
                                   [socket_pair |-> <<new_socket_pair>>,
                                    connecting_client_conn |-> client_conn])
                     /\ UNCHANGED <<halted, logged>>
  /\ UNCHANGED <<config, listening_socket_, client_socket_name_,
                 socket_relay_handler_>>

\* ------------------------------------------------------------------------
\* RelayService::OnConnect
\* ------------------------------------------------------------------------
\* Variant of FindPending whose predicate accepts any entry: it yields
\* pending_connections_.begin().
FindPending_Front(pending, self) == IF pending # <<>> THEN 1 ELSE 0

\* Lines 115-119: std::find_if over |pending_connections_|; 0 stands for
\* pending_connections_.end().
FindPending(pending, self) ==
  IF \E i \in 1..Len(pending) : pending[i].connecting_client_conn.id = self
  THEN CHOOSE i \in 1..Len(pending) :
         /\ pending[i].connecting_client_conn.id = self
         /\ \A j \in 1..(i - 1) : pending[j].connecting_client_conn.id # self
  ELSE 0

\* Variant of Erase that empties the collection.
Erase_Clear(pending, it) == <<>>

\* Variant of Erase that removes the first element whatever |it| is.
Erase_Front(pending, it) == Tail(pending)

\* Variant of Erase for a remover that was never armed: the collection is
\* left as it is.
Erase_Skipped(pending, it) == pending

\* Line 123: pending_connections_.erase(it).
Erase(pending, it) ==
  [i \in 1..(Len(pending) - 1) |-> IF i < it THEN pending[i] ELSE pending[i + 1]]

\* Variant of PairUp that gives the relay handler a copy of the pair and
\* leaves the original in the entry.
PairUp_Copy(entry, self_conn) ==
  [pair |-> [entry.socket_pair[1] EXCEPT !.second.sock = self_conn.sock],
   rest |-> [socket_pair |->
               << [entry.socket_pair[1] EXCEPT
                     !.second.sock = self_conn.sock] >>,
             connecting_client_conn |->
               IF entry.connecting_client_conn.id = self_conn.id
               THEN [entry.connecting_client_conn EXCEPT !.sock = NoSock]
               ELSE entry.connecting_client_conn]]

\* Variant of PairUp that hands over a pair with a newly constructed inbound
\* buffer instead of the staged one.
PairUp_FreshBuffer(entry, self_conn) ==
  [pair |-> [first |-> [NewSocketWithBuffer EXCEPT
                          !.sock = entry.socket_pair[1].first.sock],
             second |-> [entry.socket_pair[1].second EXCEPT
                           !.sock = self_conn.sock]],
   rest |-> [socket_pair |-> <<>>,
             connecting_client_conn |->
               IF entry.connecting_client_conn.id = self_conn.id
               THEN [entry.connecting_client_conn EXCEPT !.sock = NoSock]
               ELSE entry.connecting_client_conn]]

\* Lines 129-132: move the raw socket of |self| into the pair of the entry
\* found and move the pair out of the entry.  Yields the pair given to
\* AddSocketPair and what is left of the entry; |self| is the entry's own
\* connecting_client_conn whenever the lookup of lines 115-119 found it.
PairUp(entry, self_conn) ==
  [pair |-> [entry.socket_pair[1] EXCEPT !.second.sock = self_conn.sock],
   rest |-> [socket_pair |-> <<>>,
             connecting_client_conn |->
               IF entry.connecting_client_conn.id = self_conn.id
               THEN [entry.connecting_client_conn EXCEPT !.sock = NoSock]
               ELSE entry.connecting_client_conn]]

\* The UnixSocket object the pointer |self| refers to.  Connecting sockets
\* are owned by the pending entries; an object that has been destroyed has
\* no raw socket any more.
SelfObject(pending, self) ==
  LET owners == {i \in 1..Len(pending) :
                   pending[i].connecting_client_conn.id = self}
  IN  IF owners # {}
      THEN pending[CHOOSE i \in owners : TRUE].connecting_client_conn
      ELSE [id |-> self, sock |-> NoSock, name |-> <<>>]

\* Variant of OwnedSockets in which the connecting UnixSocket is leaked.
OwnedSockets_LeakClient(entry) ==
  IF entry.socket_pair # <<>>
  THEN {entry.socket_pair[1].first.sock, entry.socket_pair[1].second.sock}
  ELSE {}

\* ~PendingConnection: the raw sockets the entry still owns are closed.
OwnedSockets(entry) ==
  (IF entry.socket_pair # <<>>
   THEN {entry.socket_pair[1].first.sock, entry.socket_pair[1].second.sock}
   ELSE {})
  \cup {entry.connecting_client_conn.sock}

Close(socks, owned) ==
  [f \in DOMAIN socks |-> IF f \in owned THEN "closed" ELSE socks[f]]

\* The inbound connection number an entry was created for.
ConnOf(entry) == entry.connecting_client_conn.id

OnConnect(self, connected) ==
  /\ ~halted
  /\ listening_socket_ = "listening"
  /\ LET it == FindPending(pending_connections_, self)
     IN  IF it = 0
         THEN /\ halted' = TRUE
              /\ logged' = 120
              /\ UNCHANGED <<pending_connections_, socket_relay_handler_,
                             sockets, hist>>
         ELSE LET entry == pending_connections_[it]
                  n == ConnOf(entry)
                  moved == PairUp(entry,
                                  SelfObject(pending_connections_, self))
                  rest == IF connected THEN moved.rest ELSE entry
              IN  /\ socket_relay_handler_' =
                       IF connected
                       THEN Append(socket_relay_handler_, moved.pair)
                       ELSE socket_relay_handler_
                  /\ pending_connections_' = Erase(pending_connections_, it)
                  /\ sockets' = Close(sockets, OwnedSockets(rest))
                  /\ hist' = [hist EXCEPT ![n].erases = @ + 1,
                                          ![n].outcome = <<connected>>]
                  /\ UNCHANGED <<halted, logged>>
  /\ UNCHANGED <<config, listening_socket_, client_socket_name_, peers,
                 server>>

\* ------------------------------------------------------------------------
\* RelayService::OnDisconnect / RelayService::OnDataAvailable
\* ------------------------------------------------------------------------
\* The UnixSocket objects whose event listener is still the RelayService.
TrackedSockets ==
  (IF listening_socket_ = "listening" THEN {0} ELSE {})
  \cup {ConnOf(pending_connections_[i]) : i \in 1..Len(pending_connections_)}

\* Variant of DFatal that only ever logs.
DFatal_LogOnly(line) ==
  /\ logged' = line
  /\ halted' = FALSE
  /\ UNCHANGED <<config, listening_socket_, client_socket_name_,
                 pending_connections_, socket_relay_handler_, sockets, peers,
                 hist, server>>

\* PERFETTO_DFATAL: PERFETTO_FATAL when DCHECKs are on, PERFETTO_ELOG otherwise.
DFatal(line) ==
  /\ logged' = line
  /\ halted' = dcheck_is_on
  /\ UNCHANGED <<config, listening_socket_, client_socket_name_,
                 pending_connections_, socket_relay_handler_, sockets, peers,
                 hist, server>>

OnDisconnect(self) ==
  /\ ~halted
  /\ self \in TrackedSockets
  /\ DFatal(136)

OnDataAvailable(self) ==
  /\ ~halted
  /\ self \in TrackedSockets
  /\ DFatal(140)

\* ------------------------------------------------------------------------
\* The run loop: callbacks are delivered one at a time.
\* ------------------------------------------------------------------------
ListenResults == {"null", "unbound", "listening"}

Next ==
  \/ \E r \in ListenResults, name \in SocketNames : Start(r, name)
  \/ \E creds \in Peers : OnNewIncomingConnection(creds)
  \/ \E self \in 1..Len(peers), connected \in BOOLEAN : OnConnect(self, connected)
  \/ \E self \in 0..MaxConn : OnDisconnect(self)
  \/ \E self \in 0..MaxConn : OnDataAvailable(self)

Spec == Init /\ [][Next]_vars

\* ------------------------------------------------------------------------
\* GetMachineIdHint on its own: the static function called with either value
\* of its flag, for a wider range of boot id file contents (empty, without a
\* newline, with several newlines, with a newline inside).
\* ------------------------------------------------------------------------
HintBootIdFiles ==
  BootIdFiles \cup
  { << <<>> >>, << <<NL>> >>, << <<98, NL, NL>> >>, << <<97, NL, 98>> >>,
    << <<99, 100>> >>, << <<97, 102, 51>> >> }

HintEnvironments ==
  [boot_id : HintBootIdFiles, stat_rc : {0, -1}, uname_rc : {0, -1},
   btime : {<<5, 0, 0, 1>>}, kernel_info : {<<76, 105, 110, 0, 54>>}]

InitHint ==
  /\ platform \in Platforms
  /\ dcheck_is_on \in BOOLEAN
  /\ env \in HintEnvironments
  /\ machine_id_hint_ = GetMachineIdHint(FALSE, platform, env)
  /\ hint_call = [use_pseudo_boot_id_for_testing |-> FALSE,
                  value |-> machine_id_hint_]
  /\ listening_socket_ = "null"
  /\ client_socket_name_ = <<>>
  /\ pending_connections_ = <<>>
  /\ socket_relay_handler_ = <<>>
  /\ sockets = [f \in AllSocks |-> "unused"]
  /\ peers = <<>>
  /\ hist = [n \in 1..MaxConn |-> NoHist]
  /\ server = NewSocketWithBuffer
  /\ halted = FALSE
  /\ logged = 0

CallGetMachineIdHint(use_pseudo_boot_id_for_testing) ==
  /\ hint_call' =
       [use_pseudo_boot_id_for_testing |-> use_pseudo_boot_id_for_testing,
        value |-> GetMachineIdHint(use_pseudo_boot_id_for_testing, platform,
                                   env)]
  /\ UNCHANGED <<platform, dcheck_is_on, env, machine_id_hint_,
                 listening_socket_, client_socket_name_, pending_connections_,
                 socket_relay_handler_, sockets, peers, hist, server, halted,
                 logged>>

NextHint == \E flag \in BOOLEAN : CallGetMachineIdHint(flag)

SpecHint == InitHint /\ [][NextHint]_vars

\* ------------------------------------------------------------------------
\* The run loop with a well-behaved socket layer: UnixSocket reports the
\* outcome of every connecting socket once, while the socket is alive, and
\* delivers no data or disconnect events for sockets of the service.
\* ------------------------------------------------------------------------
OnOutboundResolved(self, connected) ==
  /\ \E i \in 1..Len(pending_connections_) :
       pending_connections_[i].connecting_client_conn.id = self
  /\ OnConnect(self, connected)

NextLive ==
  \/ \E r \in ListenResults, name \in SocketNames : Start(r, name)
  \/ \E creds \in Peers : OnNewIncomingConnection(creds)
  \/ \E self \in 1..MaxConn, connected \in BOOLEAN :
       OnOutboundResolved(self, connected)

\* The same run loop in a world where the boot id file changes (or appears,
\* or disappears) while the service runs.
BootIdChanges(file) ==
  /\ file # env.boot_id
  /\ env' = [env EXCEPT !.boot_id = file]
  /\ UNCHANGED <<platform, dcheck_is_on, hint_call, machine_id_hint_,
                 listening_socket_, client_socket_name_, pending_connections_,
                 socket_relay_handler_, sockets, peers, hist, server, halted,
                 logged>>

NextEnv ==
  \/ \E r \in ListenResults, name \in SocketNames : Start(r, name)
  \/ \E creds \in Peers : OnNewIncomingConnection(creds)
  \/ \E self \in 1..MaxConn, connected \in BOOLEAN :
       OnOutboundResolved(self, connected)
  \/ \E file \in BootIdFiles : BootIdChanges(file)

SpecEnv == Init /\ [][NextEnv]_vars

\* Every connection attempt that is in flight is eventually resolved.
SpecLive ==
  /\ Init
  /\ [][NextLive]_vars
  /\ \A self \in 1..MaxConn :
       WF_vars(\E connected \in BOOLEAN : OnOutboundResolved(self, connected))

\* ------------------------------------------------------------------------
\* Properties
\* ------------------------------------------------------------------------
Accepted == 1..Len(peers)

\* The pairs given to SocketRelayHandler whose inbound side is connection n.
PairsOf(n) ==
  {i \in 1..Len(socket_relay_handler_) :
     socket_relay_handler_[i].first.sock = InSock(n)}

\* The pending entries created for connection n.
EntriesOf(n) ==
  {i \in 1..Len(pending_connections_) : ConnOf(pending_connections_[i]) = n}

\* The acceptance of connection n was aborted by the capacity check.
AbortedAtStaging(n) == halted /\ logged = 100 /\ n = Len(peers)

\* C1: every pair handed to AddSocketPair (which happens exactly in OnConnect
\* with connected = true) has an inbound side whose pending output, read from
\* offset 0 of its buffer, is exactly the serialized request built when that
\* inbound connection was accepted: nothing before it and nothing after it.
C1_HandedPairCarriesFrame ==
  \A i \in 1..Len(socket_relay_handler_) :
    LET pair == socket_relay_handler_[i]
        n == pair.first.sock[2]
    IN  /\ pair.first.sock[1] = "in"
        /\ hist[n].outcome = <<TRUE>>
        /\ hist[n].req # <<>>
        /\ pair.first.data_size_ = Len(hist[n].req)
        /\ \A k \in 1..Len(hist[n].req) : pair.first.buf_[k] = hist[n].req[k]

C1_Witness ==
  /\ Len(socket_relay_handler_) = 2
  /\ socket_relay_handler_[1].first.buf_ # socket_relay_handler_[2].first.buf_

\* C2: once OnConnect has been delivered with connected = false for the
\* attempt of connection n, no pair for n is with the relay handler (in the
\* state the handler returns in and in every later state), the entry is gone,
\* and both the inbound and the outbound socket of n are closed.
C2_FailedAttemptDiscarded ==
  \A n \in Accepted :
    hist[n].outcome = <<FALSE>> =>
      /\ PairsOf(n) = {}
      /\ \A i \in 1..Len(socket_relay_handler_) :
           socket_relay_handler_[i].second.sock # OutSock(n)
      /\ EntriesOf(n) = {}
      /\ sockets[InSock(n)] = "closed"
      /\ sockets[OutSock(n)] = "closed"

C2_Witness ==
  \E n \in Accepted, m \in Accepted :
    /\ hist[n].outcome = <<FALSE>>
    /\ hist[m].outcome = <<TRUE>>
    /\ n < m

\* C3: for every accepted inbound connection exactly one outbound attempt is
\* opened and exactly one pending entry is pushed (none only when the process
\* was terminated by the capacity check of that very acceptance); the entry is
\* erased at most once, it is erased exactly once as soon as OnConnect has
\* found it, whatever the outcome, and until then it is in the collection
\* exactly once.  Connections not yet accepted have no attempt and no entry.
C3_OneAttemptOneEntryOneRemoval ==
  /\ \A n \in Accepted :
       /\ hist[n].connects = 1
       /\ sockets[OutSock(n)] # "unused"
       /\ hist[n].pushes = IF AbortedAtStaging(n) THEN 0 ELSE 1
       /\ hist[n].erases = IF hist[n].outcome = <<>> THEN 0 ELSE 1
       /\ Cardinality(EntriesOf(n)) = hist[n].pushes - hist[n].erases
  /\ \A n \in (1..MaxConn) \ Accepted :
       /\ hist[n] = NoHist
       /\ EntriesOf(n) = {}
       /\ sockets[OutSock(n)] = "unused"
  /\ Len(pending_connections_) <= Len(peers)

C3_Witness ==
  /\ pending_connections_ = <<>>
  /\ Len(peers) = MaxConn
  /\ \E n \in Accepted, m \in Accepted :
       /\ n < m
       /\ hist[n].outcome = <<TRUE>> /\ hist[n].erases = 1
       /\ hist[m].outcome = <<FALSE>> /\ hist[m].erases = 1

\* The frame the host traced has to find first on connection n: request id 0
\* and a SetPeerIdentity with the uid of peer n, the cached hint, and the pid
\* of peer n where the build reads it (Linux and Android).
IdentityFrameOf(n) ==
  [request_id |-> <<0>>,
   set_peer_identity |->
     << [pid |-> IF platform = "linux" THEN <<peers[n].pid>> ELSE <<>>,
         uid |-> <<peers[n].uid>>,
         machine_id_hint |-> <<machine_id_hint_>>] >>]

\* C4: the frame OnNewIncomingConnection stages on the inbound side (in the
\* local |server| of the latest acceptance and in every pending entry) is the
\* serialization of a frame with request id 0 whose SetPeerIdentity carries
\* the uid of that same peer, the service's machine id hint and, on Linux and
\* Android, the pid of that same peer.
C4_StagedFrameIdentity ==
  /\ \A i \in 1..Len(pending_connections_) :
       LET entry == pending_connections_[i]
       IN  /\ entry.socket_pair # <<>>
           /\ PendingOutput(entry.socket_pair[1].first)
                = Serialize(IdentityFrameOf(ConnOf(entry)))
  /\ (peers # <<>> /\ ~AbortedAtStaging(Len(peers)))
       => PendingOutput(server) = Serialize(IdentityFrameOf(Len(peers)))

C4_Witness ==
  /\ platform = "linux"
  /\ machine_id_hint_ # <<>>
  /\ Len(pending_connections_) = 2
  /\ peers[ConnOf(pending_connections_[1])] # peers[ConnOf(pending_connections_[2])]

\* C5: staging precedes resolution.  Every entry of the pending collection,
\* that is every attempt whose OnConnect can still be processed, already has
\* the request of its connection committed in its inbound buffer; and in every
\* step that hands a pair to the relay handler, the pair's inbound buffer is
\* the one that entry held before the step, frame included.
C5_FrameStagedBeforeResolution ==
  [][ /\ \A i \in 1..Len(pending_connections_) :
           LET entry == pending_connections_[i]
           IN  /\ entry.socket_pair # <<>>
               /\ entry.socket_pair[1].first.data_size_ > 0
               /\ PendingOutput(entry.socket_pair[1].first)
                    = hist[ConnOf(entry)].req
      /\ Len(socket_relay_handler_') > Len(socket_relay_handler_)
           => LET pair == socket_relay_handler_'[Len(socket_relay_handler_')]
              IN  \E i \in 1..Len(pending_connections_) :
                    LET entry == pending_connections_[i]
                    IN  /\ entry.socket_pair[1].first.sock = pair.first.sock
                        /\ entry.socket_pair[1].first.buf_ = pair.first.buf_
                        /\ entry.socket_pair[1].first.data_size_
                             = pair.first.data_size_
                        /\ pair.first.data_size_ > 0
    ]_vars

C5_Witness ==
  /\ Len(socket_relay_handler_) >= 1
  /\ Len(pending_connections_) >= 1
  /\ socket_relay_handler_[1].first.sock = InSock(2)

\* Number of complete length-prefixed frames that make up |bytes|, or -1 when
\* |bytes| is not a sequence of complete frames.
RECURSIVE FrameCount(_)
FrameCount(bytes) ==
  IF bytes = <<>> THEN 0
  ELSE IF Len(bytes) < 4 THEN -1
  ELSE LET size == bytes[1] + 256 * bytes[2] + 65536 * bytes[3]
       IN  IF bytes[4] # 0 \/ Len(bytes) < 4 + size THEN -1
           ELSE LET rest == FrameCount(SubSeq(bytes, 5 + size, Len(bytes)))
                IN  IF rest = -1 THEN -1 ELSE 1 + rest

\* C6: before handoff the inbound buffer of every pending pair holds exactly
\* one complete frame and the outbound buffer holds no bytes; the pairs the
\* relay handler received carry exactly one frame on the inbound side and
\* none on the outbound side.
C6_ExactlyOneFramePerPair ==
  /\ \A i \in 1..Len(pending_connections_) :
       LET entry == pending_connections_[i]
       IN  /\ entry.socket_pair # <<>>
           /\ FrameCount(PendingOutput(entry.socket_pair[1].first)) = 1
           /\ entry.socket_pair[1].second.data_size_ = 0
  /\ \A i \in 1..Len(socket_relay_handler_) :
       /\ FrameCount(PendingOutput(socket_relay_handler_[i].first)) = 1
       /\ socket_relay_handler_[i].second.data_size_ = 0

C6_Witness ==
  /\ Len(pending_connections_) = 1
  /\ Len(socket_relay_handler_) = 1
  /\ pending_connections_[1].socket_pair[1].first.data_size_
       # socket_relay_handler_[1].first.data_size_

\* The places of the engine that hold raw socket f: fields of pending entries
\* and, when the capacity check aborted the latest acceptance, the locals
\* |server_conn| and |client_conn| of that call.
EngineHolds(f) ==
  {<<i, "first">> : i \in {j \in 1..Len(pending_connections_) :
      /\ pending_connections_[j].socket_pair # <<>>
      /\ pending_connections_[j].socket_pair[1].first.sock = f}}
  \cup
  {<<i, "second">> : i \in {j \in 1..Len(pending_connections_) :
      /\ pending_connections_[j].socket_pair # <<>>
      /\ pending_connections_[j].socket_pair[1].second.sock = f}}
  \cup
  {<<i, "client">> : i \in {j \in 1..Len(pending_connections_) :
      pending_connections_[j].connecting_client_conn.sock = f}}
  \cup
  (IF AbortedAtStaging(f[2]) THEN {<<0, "local">>} ELSE {})

\* The places of the relay handler that hold raw socket f.
HandlerHolds(f) ==
  {<<i, "first">> : i \in {j \in 1..Len(socket_relay_handler_) :
      socket_relay_handler_[j].first.sock = f}}
  \cup
  {<<i, "second">> : i \in {j \in 1..Len(socket_relay_handler_) :
      socket_relay_handler_[j].second.sock = f}}

\* C7: a pair is given to AddSocketPair at most once; every raw socket that
\* exists has exactly one owner among the engine, the relay handler and
\* "closed"; and the sockets of a handed-off pair are still open after the
\* entry they came from has been erased.
C7_SingleOwner ==
  /\ \A n \in 1..MaxConn : Cardinality(PairsOf(n)) <= 1
  /\ \A f \in AllSocks :
       IF sockets[f] = "unused"
       THEN EngineHolds(f) = {} /\ HandlerHolds(f) = {}
       ELSE Cardinality(EngineHolds(f)) + Cardinality(HandlerHolds(f))
              + (IF sockets[f] = "closed" THEN 1 ELSE 0) = 1
  /\ \A i \in 1..Len(socket_relay_handler_) :
       LET pair == socket_relay_handler_[i]
       IN  /\ pair.first.sock[1] = "in"
           /\ pair.second.sock[1] = "out"
           /\ sockets[pair.first.sock] = "open"
           /\ sockets[pair.second.sock] = "open"
           /\ EntriesOf(pair.first.sock[2]) = {}

C7_Witness ==
  /\ Len(socket_relay_handler_) = 1
  /\ Len(pending_connections_) = 1
  /\ \E n \in Accepted : hist[n].outcome = <<TRUE>> /\ hist[n].erases = 1
  /\ \E n \in Accepted : sockets[InSock(n)] = "open" /\ HandlerHolds(InSock(n)) # {}

\* A step in which OnDisconnect or OnDataAvailable is delivered for a socket
\* the engine still tracks.
UnreachableCallback ==
  \E self \in 0..MaxConn : OnDisconnect(self) \/ OnDataAvailable(self)

\* What the engine manages: the collection, the handed-off pairs, the sockets.
engine == <<listening_socket_, client_socket_name_, pending_connections_,
            socket_relay_handler_, sockets, peers, hist, server>>

C9_UnknownConnectionFatal ==
  [][ \A self \in 1..MaxConn, connected \in BOOLEAN :
        ( /\ OnConnect(self, connected)
          /\ \A i \in 1..Len(pending_connections_) :
               pending_connections_[i].connecting_client_conn.id # self )
        => /\ halted'
           /\ logged' = 120
           /\ UNCHANGED <<pending_connections_, socket_relay_handler_, sockets>>
    ]_vars

C9_Witness ==
  /\ halted
  /\ logged = 120
  /\ Len(pending_connections_) = 1
  /\ Len(socket_relay_handler_) = 1

\* C10: in every acceptance, if the serialized request is longer than the
\* capacity left in the new inbound buffer the process halts at the capacity
\* check with the buffer untouched and no entry recorded; otherwise the whole
\* request is copied and committed, and the entry recorded holds it entire.
C10_OverflowFatalElseWholeFrame ==
  [][ Len(peers') = Len(peers) + 1 =>
        LET n == Len(peers')
            req == hist'[n].req
        IN  /\ req # <<>>
            /\ IF Len(req) > kBuffSize
               THEN /\ halted'
                    /\ logged' = 100
                    /\ server' = NewSocketWithBuffer
                    /\ pending_connections_' = pending_connections_
               ELSE /\ ~halted'
                    /\ server'.data_size_ = Len(req)
                    /\ PendingOutput(server') = req
                    /\ Len(pending_connections_') = Len(pending_connections_) + 1
                    /\ LET entry == pending_connections_'[Len(pending_connections_')]
                       IN  /\ ConnOf(entry) = n
                           /\ entry.socket_pair[1].first.buf_ = server'.buf_
                           /\ entry.socket_pair[1].first.data_size_ = Len(req)
                    /\ \A i \in 1..Len(pending_connections_) :
                         pending_connections_'[i] = pending_connections_[i]
    ]_vars

C10_Witness ==
  /\ halted
  /\ logged = 100
  /\ Len(pending_connections_) = 1
  /\ server = NewSocketWithBuffer
  /\ Len(hist[Len(peers)].req) > kBuffSize

\* C11: a Start call whose listening socket is missing or not listening halts
\* the process at line 59 with no upstream name stored; a Start call that
\* succeeds stores the upstream name it was given and leaves the service
\* without any outbound attempt, raw socket or pending entry, and the pending
\* collection stays empty as long as no inbound connection has been accepted.
C11_StartFatalOrStoresName ==
  [][ /\ \A r \in ListenResults, name \in SocketNames :
           Start(r, name) =>
             IF r = "listening"
             THEN /\ ~halted'
                  /\ listening_socket_' = "listening"
                  /\ client_socket_name_' = name
                  /\ pending_connections_' = <<>>
                  /\ \A f \in AllSocks : sockets'[f] = "unused"
                  /\ \A n \in 1..MaxConn : hist'[n].connects = 0
             ELSE /\ halted'
                  /\ logged' = 59
                  /\ listening_socket_' = "null"
                  /\ client_socket_name_' = <<>>
                  /\ pending_connections_' = <<>>
      /\ peers' = <<>> =>
           /\ pending_connections_' = <<>>
           /\ \A n \in 1..MaxConn : hist'[n].connects = 0
    ]_vars

C11_Witness ==
  /\ halted
  /\ logged = 59
  /\ listening_socket_ = "null"
  /\ client_socket_name_ = <<>>
  /\ pending_connections_ = <<>>

\* C12: with every outbound attempt eventually resolved, and resolved once,
\* every accepted connection that is in the pending collection eventually
\* leaves it with its outcome recorded (Paired or Discarded), unless a fatal
\* check ends the process first; and whenever every accepted connection has
\* its outcome the pending collection is empty.
C12_PendingEventuallyLeaves ==
  /\ \A n \in 1..MaxConn :
       [](EntriesOf(n) # {} =>
            <>(halted \/ (EntriesOf(n) = {} /\ hist[n].outcome # <<>>)))
  /\ []((\A n \in Accepted : hist[n].outcome # <<>>)
          => pending_connections_ = <<>>)

C12_Witness ==
  /\ ~halted
  /\ Len(peers) = MaxConn
  /\ pending_connections_ = <<>>
  /\ \A n \in Accepted : hist[n].outcome # <<>>
  /\ \E n \in Accepted : hist[n].outcome = <<FALSE>>

HasNewline(str) == \E k \in 1..Len(str) : str[k] = NL

\* A lowercase hexadecimal rendering of a 64 bit value: 1 to 16 digits.
IsHexDigest(str) ==
  /\ Len(str) \in 1..16
  /\ \A k \in 1..Len(str) : str[k] \in (48..57) \cup (97..102)

\* |value| is |content| without one final newline, if it has one.
IsContentLessOneNewline(value, content) ==
  \/ content = value \o <<NL>>
  \/ content = value /\ (value = <<>> \/ value[Len(value)] # NL)

\* The latest call read the boot id file and returned from line 149.
ReturnedBootId ==
  /\ ~hint_call.use_pseudo_boot_id_for_testing
  /\ env.boot_id # <<>>

\* C13 as stated: whatever the file holds and whatever the system calls
\* return, the value is a hex digest, a boot id without a trailing newline or
\* empty, and has no newline in it.
C13_NeverANewline ==
  /\ ~HasNewline(hint_call.value)
  /\ \/ hint_call.value = <<>>
     \/ IsHexDigest(hint_call.value)
     \/ ReturnedBootId

\* C13, amended: the value is a lowercase hex digest of at most 16 digits, the
\* boot id file content less a single final newline, or empty; it can hold a
\* newline only when it comes from a file whose content has a newline other
\* than one final newline.
C13_HexBootIdOrEmpty ==
  LET value == hint_call.value
  IN  /\ \/ value = <<>>
         \/ IsHexDigest(value)
         \/ ReturnedBootId /\ IsContentLessOneNewline(value, env.boot_id[1])
      /\ HasNewline(value) =>
           /\ ReturnedBootId
           /\ HasNewline(SubSeq(env.boot_id[1], 1, Len(env.boot_id[1]) - 1))

C13_Witness ==
  /\ ReturnedBootId
  /\ env.boot_id[1] = <<98, NL, NL>>
  /\ hint_call.value = <<98, NL>>

\* C14: the sources are tried in order.  Without the test flag and with a
\* readable file the value is the content less one final newline; otherwise,
\* on a platform with the fallback and with both system calls succeeding, it is
\* the non-empty lowercase hex digest of birth timestamp and utsname; in every
\* other case it is empty.
C14_SourcesInOrder ==
  LET value == hint_call.value
  IN  IF ~hint_call.use_pseudo_boot_id_for_testing /\ env.boot_id # <<>>
      THEN IsContentLessOneNewline(value, env.boot_id[1])
      ELSE IF /\ platform \in {"linux", "apple"}
              /\ env.stat_rc = 0
              /\ env.uname_rc = 0
           THEN /\ value # <<>>
                /\ IsHexDigest(value)
                /\ value = Uint64ToHexStringNoPrefix(
                             HasherUpdate(kFnv1a64OffsetBasis,
                                          env.btime \o env.kernel_info))
           ELSE value = <<>>

C14_Witness ==
  /\ hint_call.use_pseudo_boot_id_for_testing
  /\ env.boot_id = << <<98, NL>> >>
  /\ IsHexDigest(hint_call.value)
  /\ hint_call.value # machine_id_hint_

\* C15: every entry of the pending collection belongs to an attempt whose
\* OnConnect has not been processed, still holds its pair with the inbound
\* socket of its connection and its connecting socket, both open, and no two
\* entries refer to the same connection object.
C15_PendingEntriesAreConnecting ==
  /\ \A i \in 1..Len(pending_connections_) :
       LET entry == pending_connections_[i]
           n == ConnOf(entry)
       IN  /\ n \in Accepted
           /\ hist[n].outcome = <<>>
           /\ entry.socket_pair # <<>>
           /\ entry.socket_pair[1].first.sock = InSock(n)
           /\ entry.socket_pair[1].second.sock = NoSock
           /\ entry.connecting_client_conn.sock = OutSock(n)
           /\ sockets[InSock(n)] = "open"
           /\ sockets[OutSock(n)] = "open"
  /\ \A i, j \in 1..Len(pending_connections_) :
       i # j => ConnOf(pending_connections_[i]) # ConnOf(pending_connections_[j])

C15_Witness ==
  /\ Len(pending_connections_) = 1
  /\ ConnOf(pending_connections_[1]) = 1
  /\ hist[2].outcome = <<FALSE>>

\* The state of inbound connection n in the state machine of the engine.
StateOf(n) ==
  IF n \notin Accepted THEN "None"
  ELSE IF PairsOf(n) # {} THEN "Paired"
  ELSE IF EntriesOf(n) # {} THEN "Connecting"
  ELSE IF sockets[InSock(n)] = "closed" THEN "Discarded"
  ELSE "Aborted"

\* The pairs the relay handler holds for connection n.
HandedOver(n) == {socket_relay_handler_[i] : i \in PairsOf(n)}

\* C16: a connection only moves from not yet accepted to Connecting (or to the
\* fatal abort of its acceptance) and from Connecting to Paired or Discarded.
\* Paired and Discarded are terminal: no later step changes the state, puts an
\* entry for the connection into the pending collection, hands it over again,
\* or changes (closes) one of its sockets.
C16_TerminalStates ==
  [][ \A n \in 1..MaxConn :
        /\ <<StateOf(n), StateOf(n)'>> \in
             { <<"None", "None">>, <<"None", "Connecting">>,
               <<"None", "Aborted">>, <<"Connecting", "Connecting">>,
               <<"Connecting", "Paired">>, <<"Connecting", "Discarded">>,
               <<"Paired", "Paired">>, <<"Discarded", "Discarded">>,
               <<"Aborted", "Aborted">> }
        /\ StateOf(n) \in {"Paired", "Discarded"} =>
             /\ EntriesOf(n)' = {}
             /\ HandedOver(n)' = HandedOver(n)
             /\ Cardinality(PairsOf(n)') = Cardinality(PairsOf(n))
             /\ sockets'[InSock(n)] = sockets[InSock(n)]
             /\ sockets'[OutSock(n)] = sockets[OutSock(n)]
             /\ hist'[n] = hist[n]
    ]_vars

C16_Witness ==
  /\ StateOf(1) = "Discarded"
  /\ StateOf(2) = "Paired"
  /\ logged = 140
  /\ ~halted

\* C17: an acceptance that runs to its end hands nothing to the relay handler
\* and sends nothing: the collection grows by exactly the one new entry, whose
\* request is still wholly queued; the entries that were there, with their
\* buffers, and all other sockets and connections are as before; exactly one
\* outbound socket is opened.  An acceptance ended by the capacity check
\* leaves collection and relay handler as they were.
C17_AcceptanceFrame ==
  [][ Len(peers') = Len(peers) + 1 =>
        LET n == Len(peers')
        IN  /\ socket_relay_handler_' = socket_relay_handler_
            /\ \A i \in 1..Len(pending_connections_) :
                 /\ i <= Len(pending_connections_')
                 /\ pending_connections_'[i] = pending_connections_[i]
            /\ \A f \in AllSocks \ {InSock(n), OutSock(n)} :
                 sockets'[f] = sockets[f]
            /\ sockets[OutSock(n)] = "unused" /\ sockets'[OutSock(n)] = "open"
            /\ sockets'[InSock(n)] = "open"
            /\ \A m \in (1..MaxConn) \ {n} : hist'[m] = hist[m]
            /\ hist'[n].connects = 1
            /\ UNCHANGED <<listening_socket_, client_socket_name_,
                           machine_id_hint_>>
            /\ Len(pending_connections_') =
                 Len(pending_connections_) + (IF halted' THEN 0 ELSE 1)
            /\ ~halted' =>
                 LET entry == pending_connections_'[Len(pending_connections_')]
                 IN  /\ ConnOf(entry) = n
                     /\ entry.socket_pair[1].first.data_size_ = Len(hist'[n].req)
                     /\ entry.socket_pair[1].second.data_size_ = 0
    ]_vars

C17_Witness ==
  /\ Len(pending_connections_) = 2
  /\ socket_relay_handler_ = <<>>
  /\ ~halted
  /\ logged = 0

\* C18: machine_id_hint_ is the value the constructor's GetMachineIdHint call
\* returned and no step changes it; the request built in any acceptance
\* carries that value, also when the boot id file has changed since and a new
\* derivation would give something else.
C18_HintComputedOnce ==
  [][ /\ machine_id_hint_' = machine_id_hint_
      /\ machine_id_hint_ = hint_call.value
      /\ hint_call' = hint_call
      /\ \A n \in 1..MaxConn :
           (Len(peers) + 1 = n /\ Len(peers') = n) =>
             /\ hist'[n].req = Serialize(IdentityFrameOf(n))'
             /\ ~halted' => PendingOutput(server') = hist'[n].req
    ]_vars

C18_Witness ==
  /\ Len(peers) = 2
  /\ Len(pending_connections_) = 2
  /\ GetMachineIdHint(FALSE, platform, env) # machine_id_hint_
  /\ machine_id_hint_ # <<>>
  /\ \A i \in 1..2 :
       PendingOutput(pending_connections_[i].socket_pair[1].first)
         = Serialize(IdentityFrameOf(i))

\* C19: whatever the order in which several pending attempts resolve, every
\* pair given to the relay handler joins the inbound socket of a connection
\* with the outbound socket opened in the acceptance of that same connection,
\* and its queued frame is the one forged from that connection's peer.
C19_NoCrossPairing ==
  \A i \in 1..Len(socket_relay_handler_) :
    \E n \in Accepted :
      /\ socket_relay_handler_[i].first.sock = InSock(n)
      /\ socket_relay_handler_[i].second.sock = OutSock(n)
      /\ PendingOutput(socket_relay_handler_[i].first)
           = Serialize(IdentityFrameOf(n))
      /\ hist[n].outcome = <<TRUE>>

C19_Witness ==
  /\ Len(socket_relay_handler_) = 2
  /\ socket_relay_handler_[1].first.sock = InSock(2)
  /\ socket_relay_handler_[2].first.sock = InSock(1)
  /\ peers[1] # peers[2]

\* C20: an OnConnect call that finds the entry of its attempt removes that
\* entry and no other.  The other entries stay, in order, with their pairs,
\* frame bytes and connecting sockets; the sockets and the history of the
\* other connections and the pairs already handed over are as before; the
\* relay handler gets one new pair on success and none on failure.
C20_ResolutionFrame ==
  [][ \A self \in 1..MaxConn, connected \in BOOLEAN :
        \A it \in 1..Len(pending_connections_) :
          ( /\ OnConnect(self, connected)
            /\ pending_connections_[it].connecting_client_conn.id = self )
          => /\ Len(pending_connections_') = Len(pending_connections_) - 1
             /\ \A i \in 1..Len(pending_connections_) :
                  /\ i < it => pending_connections_'[i] = pending_connections_[i]
                  /\ i > it => pending_connections_'[i - 1] = pending_connections_[i]
             /\ \A f \in AllSocks \ {InSock(self), OutSock(self)} :
                  sockets'[f] = sockets[f]
             /\ \A m \in (1..MaxConn) \ {self} : hist'[m] = hist[m]
             /\ Len(socket_relay_handler_') =
                  Len(socket_relay_handler_) + (IF connected THEN 1 ELSE 0)
             /\ \A i \in 1..Len(socket_relay_handler_) :
                  socket_relay_handler_'[i] = socket_relay_handler_[i]
             /\ UNCHANGED <<peers, server, machine_id_hint_, halted>>
    ]_vars

C20_Witness ==
  /\ Len(pending_connections_) = 1
  /\ ConnOf(pending_connections_[1]) = 2
  /\ PendingOutput(pending_connections_[1].socket_pair[1].first) = hist[2].req
  /\ sockets[InSock(2)] = "open" /\ sockets[OutSock(2)] = "open"
  /\ hist[1].outcome = <<FALSE>>
  /\ sockets[InSock(1)] = "closed"

====
